---- MODULE Spec2Model ----
(***************************************************************************)
(* Model of typedb_graph_utils: the resolution of pipeline constraints     *)
(* against an answer row (data_constraint.py) and the NetworkXBuilder that *)
(* draws the resolved constraints into a networkx MultiDiGraph             *)
(* (networkx_builder.py).                                                  *)
(*                                                                         *)
(* Python objects are records, Python str values are strings.  Python's    *)
(* None is the record None where the other values are objects and the      *)
(* string NoneStr where the other values are str (TLC compares values of   *)
(* one shape only); Str is Python's str() on such a value.                 *)
(***************************************************************************)
EXTENDS Integers, Sequences, FiniteSets, TLC

VARIABLES graph, last, raised, repeated, ncalls

vars == <<graph, last, raised, repeated, ncalls>>

(* ------------------------------ bounds -------------------------------- *)

\* The number of constraints the driver hands to the builder in one session.
MaxCalls == 2

\* The longest argument / assigned list of an Expression or FunctionCall.
MaxArgs == 2

(* ------------------------- Python's None and str ---------------------- *)

None == [vk |-> "None"]

NoneStr == "<None>"

\* str(x) / f"{x}" of an Optional[str].
Str(x) == IF x = NoneStr THEN "None" ELSE x

\* `n is None` for an int n (the result of len()): never true.
IntIsNone(n) == FALSE

(* ------------------------------ concepts ------------------------------ *)

Person1 == [kind |-> "entity", iid |-> "Person#1", label |-> "Person"]

Alice == [kind |-> "attribute", iid |-> "Name(Alice)", label |-> "Name"]

PersonType == [kind |-> "entity_type", label |-> "Person"]

EmployeeRole == [kind |-> "role_type", label |-> "employee"]

\* Concept.get_label()
get_label(concept) == concept.label

(* -------------------- the pipeline and the answer rows ---------------- *)

\* Pipeline.get_variable_name: the third variable is anonymous.
get_variable_name(variable) ==
    CASE variable = "v1" -> "x"
      [] variable = "v2" -> "y"
      [] variable = "v3" -> NoneStr
      [] variable = "v4" -> "r"
      [] variable = "v6" -> "t"
      [] OTHER -> NoneStr

\* ConceptRow.get(name): None for a variable with no answer in this row.
RowBound == [x |-> Person1, y |-> Alice, t |-> PersonType, r |-> EmployeeRole]

RowUnbound == [x |-> Person1, y |-> None, t |-> None, r |-> None]

Rows == {RowBound, RowUnbound}

row_get(row, name) == row[name]

(* ---------------------- ConstraintVertex (abstract) ------------------- *)

VX == [kind |-> "variable", variable |-> "v1"]

VY == [kind |-> "variable", variable |-> "v2"]

VAnon == [kind |-> "variable", variable |-> "v3"]

VRole == [kind |-> "variable", variable |-> "v4"]

VT == [kind |-> "variable", variable |-> "v6"]

LPerson == [kind |-> "label", label |-> PersonType]

NRole == [kind |-> "named_role", variable |-> "v5", name |-> "employee"]

Literal == [kind |-> "value", value |-> [kind |-> "value", value |-> "30"]]

Unknown == [kind |-> "unknown"]

is_label(vertex) == vertex.kind = "label"

is_variable(vertex) == vertex.kind = "variable"

is_value(vertex) == vertex.kind = "value"

is_named_role(vertex) == vertex.kind = "named_role"

(* ------------------------------ DataVertex ---------------------------- *)

ConceptVertex(concept) == [vk |-> "ConceptVertex", concept |-> concept]

NamedRoleVertex(variable, name) ==
    [vk |-> "NamedRoleVertex", variable |-> variable, name |-> name]

FunctionCallVertex(name, assigned, arguments) ==
    [vk |-> "FunctionCallVertex", name |-> name, assigned |-> assigned,
     arguments |-> arguments]

ExpressionVertex(text, assigned, arguments) ==
    [vk |-> "ExpressionVertex", text |-> text, assigned |-> assigned,
     arguments |-> arguments]

isinstance(vertex, class) == vertex.vk = class

\* vertex.__eq__(other), and None == other where the vertex is None (an
\* unresolved element of an assigned or argument tuple). The display name of
\* a NamedRoleVertex is not compared.
RECURSIVE VertexEq(_, _)
VertexEq(vertex, other) ==
    IF vertex = None THEN other = None
    ELSE IF other = None \/ ~isinstance(other, vertex.vk) THEN FALSE
    ELSE LET TupleEq(s, t) ==
                 /\ Len(s) = Len(t)
                 /\ \A i \in DOMAIN s : VertexEq(s[i], t[i])
         IN  CASE vertex.vk = "ConceptVertex" -> vertex.concept = other.concept
               [] vertex.vk = "NamedRoleVertex" -> vertex.variable = other.variable
               [] vertex.vk = "FunctionCallVertex" ->
                    /\ vertex.name = other.name
                    /\ TupleEq(vertex.assigned, other.assigned)
                    /\ TupleEq(vertex.arguments, other.arguments)
               [] vertex.vk = "ExpressionVertex" ->
                    /\ vertex.text = other.text
                    /\ VertexEq(vertex.assigned, other.assigned)
                    /\ TupleEq(vertex.arguments, other.arguments)

\* What vertex.__hash__() hashes: the fields that make a vertex's identity.
RECURSIVE Identity(_)
Identity(vertex) ==
    CASE vertex.vk = "NamedRoleVertex" ->
           [vk |-> "NamedRoleVertex", variable |-> vertex.variable]
      [] vertex.vk = "FunctionCallVertex" ->
           [vk |-> "FunctionCallVertex", name |-> vertex.name,
            assigned |-> [i \in DOMAIN vertex.assigned |-> Identity(vertex.assigned[i])],
            arguments |-> [i \in DOMAIN vertex.arguments |-> Identity(vertex.arguments[i])]]
      [] vertex.vk = "ExpressionVertex" ->
           [vk |-> "ExpressionVertex", text |-> vertex.text,
            assigned |-> Identity(vertex.assigned),
            arguments |-> [i \in DOMAIN vertex.arguments |-> Identity(vertex.arguments[i])]]
      [] OTHER -> vertex

(* ---------------------- resolve_constraint_vertex --------------------- *)

resolve_constraint_vertex(vertex, concept_row) ==
    IF is_label(vertex) THEN ConceptVertex(vertex.label)
    ELSE IF is_variable(vertex) THEN
        LET var_name == get_variable_name(vertex.variable)
        IN  IF var_name # NoneStr
            THEN ConceptVertex(row_get(concept_row, var_name))
            ELSE None
    ELSE IF is_value(vertex) THEN ConceptVertex(vertex.value)
    ELSE IF is_named_role(vertex) THEN NamedRoleVertex(vertex.variable, vertex.name)
    ELSE None

resolve_all(vertices, concept_row) ==
    [i \in DOMAIN vertices |-> resolve_constraint_vertex(vertices[i], concept_row)]

(* ----------------------- Constraint (abstract) ------------------------ *)

Exactness == {"Exact", "Subtypes"}

\* All sequences over S of length at most n.
SeqsUpTo(S, n) == UNION {[1..k -> S] : k \in 0..n}

Binary(kind, a, b) ==
    {[kind |-> kind, first |-> x, second |-> y, exactness |-> e] :
        x \in a, y \in b, e \in Exactness}

IsaConstraints == Binary("isa", {VX, VAnon}, {VT, LPerson})

HasConstraints == Binary("has", {VX}, {VY, VAnon})

SubConstraints == Binary("sub", {VX}, {VT, Unknown})

OwnsConstraints == Binary("owns", {VX, VAnon}, {VY})

RelatesConstraints == Binary("relates", {VX}, {NRole, VRole})

PlaysConstraints == Binary("plays", {VX, VAnon}, {VRole})

LinksConstraints ==
    {[kind |-> "links", relation |-> x, player |-> y, role |-> z, exactness |-> "Subtypes"] :
        x \in {VX}, y \in {VY, VAnon}, z \in {VRole, NRole, VAnon}}

ExpressionConstraints ==
    {[kind |-> "expression", text |-> "y + 1", assigned |-> a, arguments |-> args] :
        a \in {VX, VAnon}, args \in SeqsUpTo({VY, VAnon}, MaxArgs)}

FunctionCallConstraints ==
    {[kind |-> "function_call", name |-> "age", assigned |-> as, arguments |-> args] :
        as \in SeqsUpTo({VX, VAnon}, MaxArgs), args \in SeqsUpTo({VY}, MaxArgs)}

IsConstraints == {[kind |-> "is", lhs |-> VX, rhs |-> VX]}

IidConstraints == {[kind |-> "iid", variable |-> VX, iid |-> "0x1e00"]}

ComparisonConstraints ==
    {[kind |-> "comparison", lhs |-> VX, rhs |-> Literal, comparator |-> "Eq"]}

KindConstraints == {[kind |-> "kind", kind_enum |-> "Entity", type |-> VX]}

LabelConstraints == {[kind |-> "label", variable |-> VX, label |-> "Person"]}

ValueConstraints == {[kind |-> "value", attribute_type |-> VX, value_type |-> "string"]}

StructureConstraints == {[kind |-> k] : k \in {"or", "not", "try"}}

UnsupportedConstraints == {[kind |-> "optional"]}

(* --------------------------- DataConstraint.of ------------------------ *)

\* The unknown kind answered with None instead of an exception.
TypeError_returns_None(what) == None

TypeError(what) == [vk |-> "TypeError", message |-> "Unsupported constraint variant: " \o what]

of(constraint, concept_row) ==
    LET resolve(v) == resolve_constraint_vertex(v, concept_row)
        k == constraint.kind
    IN  CASE k = "isa" ->
               [kind |-> "Isa", pipeline_constraint |-> constraint,
                instance |-> resolve(constraint.first), type |-> resolve(constraint.second),
                exactness |-> constraint.exactness]
          [] k = "has" ->
               [kind |-> "Has", pipeline_constraint |-> constraint,
                owner |-> resolve(constraint.first), attribute |-> resolve(constraint.second),
                exactness |-> constraint.exactness]
          [] k = "links" ->
               [kind |-> "Links", pipeline_constraint |-> constraint,
                relation |-> resolve(constraint.relation), player |-> resolve(constraint.player),
                role |-> resolve(constraint.role), exactness |-> constraint.exactness]
          [] k = "sub" ->
               [kind |-> "Sub", pipeline_constraint |-> constraint,
                subtype |-> resolve(constraint.first), supertype |-> resolve(constraint.second),
                exactness |-> constraint.exactness]
          [] k = "owns" ->
               [kind |-> "Owns", pipeline_constraint |-> constraint,
                owner |-> resolve(constraint.first), attribute |-> resolve(constraint.second),
                exactness |-> constraint.exactness]
          [] k = "relates" ->
               [kind |-> "Relates", pipeline_constraint |-> constraint,
                relation |-> resolve(constraint.first), role |-> resolve(constraint.second),
                exactness |-> constraint.exactness]
          [] k = "plays" ->
               [kind |-> "Plays", pipeline_constraint |-> constraint,
                player |-> resolve(constraint.first), role |-> resolve(constraint.second),
                exactness |-> constraint.exactness]
          [] k = "function_call" ->
               LET arguments == resolve_all(constraint.arguments, concept_row)
                   assigned == resolve_all(constraint.assigned, concept_row)
               IN  [kind |-> "FunctionCall", pipeline_constraint |-> constraint,
                    call_vertex |-> FunctionCallVertex(constraint.name, assigned, arguments),
                    arguments |-> arguments, assigned |-> assigned]
          [] k = "expression" ->
               LET arguments == resolve_all(constraint.arguments, concept_row)
                   assigned == resolve(constraint.assigned)
               IN  [kind |-> "Expression", pipeline_constraint |-> constraint,
                    expression_vertex |-> ExpressionVertex(constraint.text, assigned, arguments),
                    arguments |-> arguments, assigned |-> assigned]
          [] k = "is" ->
               [kind |-> "Is", pipeline_constraint |-> constraint,
                lhs |-> resolve(constraint.lhs), rhs |-> resolve(constraint.rhs)]
          [] k = "iid" ->
               [kind |-> "Iid", pipeline_constraint |-> constraint,
                variable |-> resolve(constraint.variable), iid |-> constraint.iid]
          [] k = "comparison" ->
               [kind |-> "Comparison", pipeline_constraint |-> constraint,
                lhs |-> resolve(constraint.lhs), rhs |-> resolve(constraint.rhs),
                comparator |-> constraint.comparator]
          [] k = "kind" ->
               [kind |-> "Kind", pipeline_constraint |-> constraint,
                kind_enum |-> constraint.kind_enum, type |-> resolve(constraint.type)]
          [] k = "label" ->
               [kind |-> "Label", pipeline_constraint |-> constraint,
                variable |-> resolve(constraint.variable), label |-> constraint.label]
          [] k = "value" ->
               [kind |-> "Value", pipeline_constraint |-> constraint,
                attribute_type |-> resolve(constraint.attribute_type),
                value_type |-> constraint.value_type]
          [] k \in {"or", "not", "try"} -> None
          [] OTHER -> TypeError(k)

(* ------------------------- networkx.MultiDiGraph ---------------------- *)

\* What a call leaves behind: the graph, and the exception it raised (if any).
Ok(g) == [graph |-> g, raised |-> NoneStr]

Raise(g, error) == [graph |-> g, raised |-> error]

EmptyGraph == [nodes |-> {}, edges |-> {}]

has_node(g, n) == \E m \in g.nodes : VertexEq(m, n)

\* add_node(None) raises ValueError("None cannot be a node").
add_node(g, n) ==
    IF n = None THEN Raise(g, "ValueError")
    ELSE Ok([g EXCEPT !.nodes = @ \cup {n}])

EdgesBetween(g, u, v) == {e \in g.edges : VertexEq(e.u, u) /\ VertexEq(e.v, v)}

has_edge(g, u, v) == EdgesBetween(g, u, v) # {}

\* add_edge(u, v, **attributes): a multigraph, the new edge takes the next key
\* between u and v.
add_edge(g, u, v, attributes) ==
    [nodes |-> g.nodes \cup {u, v},
     edges |-> g.edges \cup {[u |-> u, v |-> v,
                              key |-> Cardinality(EdgesBetween(g, u, v)),
                              attributes |-> attributes]}]

(* ------------------------------ helpers ------------------------------- *)

may_add_node(g, node) ==
    IF ~has_node(g, node) THEN add_node(g, node) ELSE Ok(g)

\* Mutant: the has_edge guard is gone, every call adds an edge.
may_add_edge_unguarded(g, u, v, attributes) ==
    LET r1 == may_add_node(g, u)
    IN  IF r1.raised # NoneStr THEN r1
        ELSE LET r2 == may_add_node(r1.graph, v)
             IN  IF r2.raised # NoneStr THEN r2
                 ELSE Ok(add_edge(r2.graph, u, v, attributes))

\* Mutant: an edge already between u and v is replaced by the new one.
may_add_edge_overwrite(g, u, v, attributes) ==
    LET r1 == may_add_node(g, u)
    IN  IF r1.raised # NoneStr THEN r1
        ELSE LET r2 == may_add_node(r1.graph, v)
             IN  IF r2.raised # NoneStr THEN r2
                 ELSE Ok(add_edge([r2.graph EXCEPT !.edges = @ \ EdgesBetween(g, u, v)],
                                  u, v, attributes))

\* Mutant: the guard asks for the edge in the other direction, has_edge(v, u).
may_add_edge_reversed_guard(g, u, v, attributes) ==
    IF ~has_edge(g, v, u) THEN
        LET r1 == may_add_node(g, u)
        IN  IF r1.raised # NoneStr THEN r1
            ELSE LET r2 == may_add_node(r1.graph, v)
                 IN  IF r2.raised # NoneStr THEN r2
                     ELSE Ok(add_edge(r2.graph, u, v, attributes))
    ELSE Ok(g)

\* Mutant: the guard asks whether u has any outgoing edge at all.
may_add_edge_source_once(g, u, v, attributes) ==
    IF ~\E e \in g.edges : VertexEq(e.u, u) THEN
        LET r1 == may_add_node(g, u)
        IN  IF r1.raised # NoneStr THEN r1
            ELSE LET r2 == may_add_node(r1.graph, v)
                 IN  IF r2.raised # NoneStr THEN r2
                     ELSE Ok(add_edge(r2.graph, u, v, attributes))
    ELSE Ok(g)

may_add_edge(g, u, v, attributes) ==
    IF ~has_edge(g, u, v) THEN
        LET r1 == may_add_node(g, u)
        IN  IF r1.raised # NoneStr THEN r1
            ELSE LET r2 == may_add_node(r1.graph, v)
                 IN  IF r2.raised # NoneStr THEN r2
                     ELSE Ok(add_edge(r2.graph, u, v, attributes))
    ELSE Ok(g)

(* --------------------------- NetworkXBuilder -------------------------- *)

ExactLabel(name, exactness) == IF exactness = "Exact" THEN name \o "!" ELSE name

\* Mutant: the is_label() test of the pipeline constraint's type is gone.
add_isa_label_drawn(g, isa) ==
    IF isa.instance = None \/ isa.type = None THEN Ok(g)
    ELSE may_add_edge(g, isa.instance, isa.type, [label |-> ExactLabel("isa", isa.exactness)])

add_isa(g, isa) ==
    IF isa.instance = None \/ isa.type = None \/ is_label(isa.pipeline_constraint.second)
    THEN Ok(g)
    ELSE may_add_edge(g, isa.instance, isa.type, [label |-> ExactLabel("isa", isa.exactness)])

add_has(g, has) ==
    IF has.owner = None \/ has.attribute = None THEN Ok(g)
    ELSE may_add_edge(g, has.owner, has.attribute, [label |-> ExactLabel("has", has.exactness)])

add_links(g, links) ==
    IF links.relation = None \/ links.player = None THEN Ok(g)
    ELSE IF isinstance(links.role, "ConceptVertex") /\ links.role.concept = None
    THEN Raise(g, "AttributeError")   \* None.get_label()
    ELSE LET role_label ==
                 IF isinstance(links.role, "ConceptVertex") THEN get_label(links.role.concept)
                 ELSE IF isinstance(links.role, "NamedRoleVertex") THEN links.role.name
                 ELSE NoneStr
         IN  may_add_edge(g, links.relation, links.player, [label |-> Str(role_label)])

add_sub(g, sub) ==
    IF sub.subtype = None \/ sub.supertype = None THEN Ok(g)
    ELSE may_add_edge(g, sub.subtype, sub.supertype, [label |-> ExactLabel("sub", sub.exactness)])

add_owns(g, owns) ==
    IF owns.owner = None \/ owns.attribute = None THEN Ok(g)
    ELSE may_add_edge(g, owns.owner, owns.attribute,
                      [label |-> ExactLabel("owns", owns.exactness)])

\* Mutant: the edge is drawn role -> relation.
add_relates_reversed(g, relates) ==
    IF relates.relation = None \/ relates.role = None THEN Ok(g)
    ELSE may_add_edge(g, relates.role, relates.relation,
                      [label |-> ExactLabel("relates", relates.exactness)])

add_relates(g, relates) ==
    IF relates.relation = None \/ relates.role = None THEN Ok(g)
    ELSE may_add_edge(g, relates.relation, relates.role,
                      [label |-> ExactLabel("relates", relates.exactness)])

add_plays(g, plays) ==
    IF plays.player = None \/ plays.role = None THEN Ok(g)
    ELSE may_add_edge(g, plays.player, plays.role,
                      [label |-> ExactLabel("plays", plays.exactness)])

add_kind(g, kind) == Ok(g)

add_label(g, label) == Ok(g)

add_value(g, value) == Ok(g)

add_is(g, is_c) == Ok(g)

\* add_iid drawing a self-loop on its variable.
add_iid_draws(g, iid) ==
    IF iid.variable = None THEN Ok(g)
    ELSE may_add_edge(g, iid.variable, iid.variable, [label |-> "iid"])

add_iid(g, iid) == Ok(g)

add_comparison(g, comp) == Ok(g)

ArgAttributes(arg_var) ==
    LET arg_var_name == get_variable_name(arg_var.variable)
    IN  [label |-> "arg[" \o Str(arg_var_name) \o "]", var |-> arg_var_name]

AssignAttributes(assigned_var) ==
    LET assigned_var_name == get_variable_name(assigned_var.variable)
    IN  [label |-> "assign[" \o Str(assigned_var_name) \o "]", var |-> assigned_var_name]

\* for (arg, arg_var) in zip(arguments, pipeline arguments) from position i on:
\* an edge arg -> vertex each; an exception ends the loop.
RECURSIVE ArgEdges(_, _, _, _, _)
ArgEdges(g, vertex, arguments, arg_vars, i) ==
    IF i > Len(arguments) \/ i > Len(arg_vars) THEN Ok(g)
    ELSE LET r == may_add_edge(g, arguments[i], vertex, ArgAttributes(arg_vars[i]))
         IN  IF r.raised # NoneStr THEN r
             ELSE ArgEdges(r.graph, vertex, arguments, arg_vars, i + 1)

\* for (assigned, assigned_var) in zip(...): an edge vertex -> assigned each.
RECURSIVE AssignEdges(_, _, _, _, _)
AssignEdges(g, vertex, assigned, assigned_vars, i) ==
    IF i > Len(assigned) \/ i > Len(assigned_vars) THEN Ok(g)
    ELSE LET r == may_add_edge(g, vertex, assigned[i], AssignAttributes(assigned_vars[i]))
         IN  IF r.raised # NoneStr THEN r
             ELSE AssignEdges(r.graph, vertex, assigned, assigned_vars, i + 1)

\* `0 == len(xs) is None` is Python's chained comparison:
\* (0 == len(xs)) and (len(xs) is None).
ZeroLenIsNone(xs) == 0 = Len(xs) /\ IntIsNone(Len(xs))

add_expression(g, expr) ==
    IF expr.assigned = None \/ ZeroLenIsNone(expr.arguments) THEN Ok(g)
    ELSE LET r == may_add_edge(g, expr.expression_vertex, expr.assigned,
                               AssignAttributes(expr.pipeline_constraint.assigned))
         IN  IF r.raised # NoneStr THEN r
             ELSE ArgEdges(r.graph, expr.expression_vertex, expr.arguments,
                           expr.pipeline_constraint.arguments, 1)

\* add_function_call without its second loop: no argument edge is drawn.
add_function_call_assign_only(g, fc) ==
    IF ZeroLenIsNone(fc.assigned) \/ ZeroLenIsNone(fc.arguments) THEN Ok(g)
    ELSE AssignEdges(g, fc.call_vertex, fc.assigned,
                     fc.pipeline_constraint.assigned, 1)

add_function_call(g, fc) ==
    IF ZeroLenIsNone(fc.assigned) \/ ZeroLenIsNone(fc.arguments) THEN Ok(g)
    ELSE LET r == AssignEdges(g, fc.call_vertex, fc.assigned,
                              fc.pipeline_constraint.assigned, 1)
         IN  IF r.raised # NoneStr THEN r
             ELSE ArgEdges(r.graph, fc.call_vertex, fc.arguments,
                           fc.pipeline_constraint.arguments, 1)

(* ------------------------------ the session --------------------------- *)

Init ==
    /\ graph = EmptyGraph
    /\ last = None
    /\ raised = NoneStr
    /\ repeated = FALSE
    /\ ncalls = 0

\* One call of the builder: the driver has resolved a constraint of the
\* pipeline against an answer row (dc) and the add_* method of its kind has
\* run (r).
Called(dc, r) ==
    /\ graph' = r.graph
    /\ raised' = r.raised
    /\ last' = dc
    /\ repeated' = (dc = last)
    /\ ncalls' = ncalls + 1

AddIsa ==
    /\ ncalls < MaxCalls
    /\ \E constraint \in IsaConstraints, concept_row \in Rows :
          LET dc == of(constraint, concept_row)
          IN  Called(dc, add_isa(graph, dc))

AddHas ==
    /\ ncalls < MaxCalls
    /\ \E constraint \in HasConstraints, concept_row \in Rows :
          LET dc == of(constraint, concept_row)
          IN  Called(dc, add_has(graph, dc))

AddLinks ==
    /\ ncalls < MaxCalls
    /\ \E constraint \in LinksConstraints, concept_row \in Rows :
          LET dc == of(constraint, concept_row)
          IN  Called(dc, add_links(graph, dc))

AddSub ==
    /\ ncalls < MaxCalls
    /\ \E constraint \in SubConstraints, concept_row \in Rows :
          LET dc == of(constraint, concept_row)
          IN  Called(dc, add_sub(graph, dc))

AddOwns ==
    /\ ncalls < MaxCalls
    /\ \E constraint \in OwnsConstraints, concept_row \in Rows :
          LET dc == of(constraint, concept_row)
          IN  Called(dc, add_owns(graph, dc))

AddRelates ==
    /\ ncalls < MaxCalls
    /\ \E constraint \in RelatesConstraints, concept_row \in Rows :
          LET dc == of(constraint, concept_row)
          IN  Called(dc, add_relates(graph, dc))

AddPlays ==
    /\ ncalls < MaxCalls
    /\ \E constraint \in PlaysConstraints, concept_row \in Rows :
          LET dc == of(constraint, concept_row)
          IN  Called(dc, add_plays(graph, dc))

AddKind ==
    /\ ncalls < MaxCalls
    /\ \E constraint \in KindConstraints, concept_row \in Rows :
          LET dc == of(constraint, concept_row)
          IN  Called(dc, add_kind(graph, dc))

AddLabel ==
    /\ ncalls < MaxCalls
    /\ \E constraint \in LabelConstraints, concept_row \in Rows :
          LET dc == of(constraint, concept_row)
          IN  Called(dc, add_label(graph, dc))

AddValue ==
    /\ ncalls < MaxCalls
    /\ \E constraint \in ValueConstraints, concept_row \in Rows :
          LET dc == of(constraint, concept_row)
          IN  Called(dc, add_value(graph, dc))

AddExpression ==
    /\ ncalls < MaxCalls
    /\ \E constraint \in ExpressionConstraints, concept_row \in Rows :
          LET dc == of(constraint, concept_row)
          IN  Called(dc, add_expression(graph, dc))

AddFunctionCall ==
    /\ ncalls < MaxCalls
    /\ \E constraint \in FunctionCallConstraints, concept_row \in Rows :
          LET dc == of(constraint, concept_row)
          IN  Called(dc, add_function_call(graph, dc))

AddIs ==
    /\ ncalls < MaxCalls
    /\ \E constraint \in IsConstraints, concept_row \in Rows :
          LET dc == of(constraint, concept_row)
          IN  Called(dc, add_is(graph, dc))

AddIid ==
    /\ ncalls < MaxCalls
    /\ \E constraint \in IidConstraints, concept_row \in Rows :
          LET dc == of(constraint, concept_row)
          IN  Called(dc, add_iid(graph, dc))

AddComparison ==
    /\ ncalls < MaxCalls
    /\ \E constraint \in ComparisonConstraints, concept_row \in Rows :
          LET dc == of(constraint, concept_row)
          IN  Called(dc, add_comparison(graph, dc))

\* An or / not / try constraint resolves to None: nothing is handed on.
Structure ==
    /\ ncalls < MaxCalls
    /\ \E constraint \in StructureConstraints, concept_row \in Rows :
          /\ of(constraint, concept_row) = None
          /\ last' = None
    /\ raised' = NoneStr
    /\ repeated' = FALSE
    /\ ncalls' = ncalls + 1
    /\ UNCHANGED graph

\* A constraint of no known kind: DataConstraint.of raises TypeError.
Unsupported ==
    /\ ncalls < MaxCalls
    /\ \E constraint \in UnsupportedConstraints, concept_row \in Rows :
          /\ of(constraint, concept_row).vk = "TypeError"
          /\ last' = None
    /\ raised' = "TypeError"
    /\ repeated' = FALSE
    /\ ncalls' = ncalls + 1
    /\ UNCHANGED graph

Next ==
    \/ AddIsa
    \/ AddHas
    \/ AddLinks
    \/ AddSub
    \/ AddOwns
    \/ AddRelates
    \/ AddPlays
    \/ AddKind
    \/ AddLabel
    \/ AddValue
    \/ AddExpression
    \/ AddFunctionCall
    \/ AddIs
    \/ AddIid
    \/ AddComparison
    \/ Structure
    \/ Unsupported

Spec == Init /\ [][Next]_vars

(* ------------------------- what the claims quantify over -------------- *)

DrawableConstraints ==
    IsaConstraints \cup HasConstraints \cup LinksConstraints \cup SubConstraints
    \cup OwnsConstraints \cup RelatesConstraints \cup PlaysConstraints
    \cup ExpressionConstraints \cup FunctionCallConstraints
    \cup IsConstraints \cup IidConstraints \cup ComparisonConstraints
    \cup KindConstraints \cup LabelConstraints \cup ValueConstraints

\* Every record DataConstraint.of hands to the builder.
Resolved == {of(constraint, concept_row) : constraint \in DrawableConstraints, concept_row \in Rows}

\* The add_* operation that matches a resolved constraint's kind.
matching_add(g, dc) ==
    CASE dc.kind = "Isa" -> add_isa(g, dc)
      [] dc.kind = "Has" -> add_has(g, dc)
      [] dc.kind = "Links" -> add_links(g, dc)
      [] dc.kind = "Sub" -> add_sub(g, dc)
      [] dc.kind = "Owns" -> add_owns(g, dc)
      [] dc.kind = "Relates" -> add_relates(g, dc)
      [] dc.kind = "Plays" -> add_plays(g, dc)
      [] dc.kind = "Expression" -> add_expression(g, dc)
      [] dc.kind = "FunctionCall" -> add_function_call(g, dc)
      [] dc.kind = "Is" -> add_is(g, dc)
      [] dc.kind = "Iid" -> add_iid(g, dc)
      [] dc.kind = "Comparison" -> add_comparison(g, dc)
      [] dc.kind = "Kind" -> add_kind(g, dc)
      [] dc.kind = "Label" -> add_label(g, dc)
      [] dc.kind = "Value" -> add_value(g, dc)

SamePair(e, u, v) == Identity(e.u) = Identity(u) /\ Identity(e.v) = Identity(v)

LabelsOn(g, u, v) == {e.attributes.label : e \in {d \in g.edges : SamePair(d, u, v)}}

P1 == ConceptVertex(Person1)

(* -------------------------------- C1 ---------------------------------- *)

\* C1: in every state reached by add_* calls from the empty graph, the graph
\* holds at most one edge for each ordered (source, target) vertex pair.
C1_AtMostOneEdgePerPair ==
    \A e1, e2 \in graph.edges : SamePair(e1, e2.u, e2.v) => e1 = e2

\* An owns call arrived for the pair Person#1 -> Name(Alice), which holds a
\* has edge: the pair still holds one edge.
C1_Witness ==
    /\ last # None
    /\ last.kind = "Owns"
    /\ last.owner = P1
    /\ last.attribute = ConceptVertex(Alice)
    /\ LabelsOn(graph, P1, ConceptVertex(Alice)) \subseteq {"has", "has!"}
    /\ Cardinality({e \in graph.edges : SamePair(e, P1, ConceptVertex(Alice))}) = 1

(* -------------------------------- C2 ---------------------------------- *)

\* C2: first writer wins. An edge the graph holds is the only edge of its
\* ordered pair, with its label and attributes, after any further add_* call
\* with any resolved constraint: the later constraint's edge for that pair is
\* dropped and the first edge is not changed.
C2_FirstWriterWins ==
    \A dc \in Resolved :
        LET after == matching_add(graph, dc).graph
            new == after.edges \ graph.edges
        IN  /\ graph.edges \subseteq after.edges
            /\ \A d \in new, e \in graph.edges : ~SamePair(d, e.u, e.v)

\* A sub call arrived second for the pair Person#1 -> Person, which the isa
\* call before it had taken: the pair holds the isa edge.
C2_Witness ==
    /\ ncalls = 2
    /\ last # None
    /\ last.kind = "Sub"
    /\ last.subtype = P1
    /\ last.supertype = ConceptVertex(PersonType)
    /\ raised = NoneStr
    /\ LabelsOn(graph, P1, ConceptVertex(PersonType)) = {"isa"}

(* -------------------------------- C3 ---------------------------------- *)

\* C3: dedup idempotence. From every reachable graph and for every resolved
\* constraint of every kind, a second add_* call with the same record leaves
\* the graph (vertices, edges, labels, attributes) as the first call left it.
C3_DedupIdempotence ==
    \A dc \in Resolved :
        LET once == matching_add(graph, dc).graph
        IN  matching_add(once, dc).graph = once

\* The same FunctionCall record was handed over twice in a row and drew edges.
C3_Witness ==
    /\ repeated
    /\ last # None
    /\ last.kind = "FunctionCall"
    /\ raised = NoneStr
    /\ Cardinality(graph.edges) = 2
    /\ graph = matching_add(EmptyGraph, last).graph

(* -------------------------------- C4 ---------------------------------- *)

NamedVariables == {v \in {VX, VY, VT, VRole, VAnon} : get_variable_name(v.variable) # NoneStr}

\* The variable of `vertex` has a registered name and row.get(name) is None.
Unbound(vertex, concept_row) ==
    /\ vertex \in NamedVariables
    /\ row_get(concept_row, get_variable_name(vertex.variable)) = None

TwoEndpointConstraints ==
    IsaConstraints \cup HasConstraints \cup SubConstraints \cup OwnsConstraints
    \cup RelatesConstraints \cup PlaysConstraints

\* C4: absence propagation. A variable endpoint with a registered name that
\* the answer row leaves unbound resolves to absent (None), and a call with a
\* constraint that has such an endpoint, resolved against that row, leaves the
\* graph as it was.
C4_AbsencePropagation ==
    [][\A concept_row \in Rows :
          /\ \A constraint \in TwoEndpointConstraints :
                /\ last' = of(constraint, concept_row)
                /\ Unbound(constraint.first, concept_row) \/ Unbound(constraint.second, concept_row)
                => /\ \A vertex \in {constraint.first, constraint.second} :
                         Unbound(vertex, concept_row)
                             => resolve_constraint_vertex(vertex, concept_row) = None
                   /\ graph' = graph
          /\ \A constraint \in LinksConstraints :
                /\ last' = of(constraint, concept_row)
                /\ Unbound(constraint.relation, concept_row) \/ Unbound(constraint.player, concept_row)
                => /\ \A vertex \in {constraint.relation, constraint.player} :
                         Unbound(vertex, concept_row)
                             => resolve_constraint_vertex(vertex, concept_row) = None
                   /\ graph' = graph
      ]_vars

(* -------------------------------- C5 ---------------------------------- *)

ResolvedOf(constraints) ==
    {of(constraint, concept_row) : constraint \in constraints, concept_row \in Rows}

\* C5: an add_expression call with an Expression whose assigned endpoint is
\* absent or whose argument list is empty leaves the graph as it was.
C5_ExpressionNeedsAssignedAndArguments ==
    [][/\ last' \in ResolvedOf(ExpressionConstraints)
       /\ last'.assigned = None \/ Len(last'.arguments) = 0
       => graph' = graph
      ]_vars

(* -------------------------------- C6 ---------------------------------- *)

\* C6: an add_function_call call with a FunctionCall whose assigned list is
\* empty or whose argument list is empty leaves the graph as it was.
C6_FunctionCallNeedsAssignedAndArguments ==
    [][/\ last' \in ResolvedOf(FunctionCallConstraints)
       /\ Len(last'.assigned) = 0 \/ Len(last'.arguments) = 0
       => graph' = graph
      ]_vars

(* -------------------------------- C7 ---------------------------------- *)

\* C7: expected absence is never an error. For every record DataConstraint.of
\* produces, absent list elements included, the add_* call completes without
\* raising, no absent value becomes a vertex, and the call does not leave the
\* graph partly updated behind an exception.
C7_AbsenceIsNeverAnError ==
    [][last' \in Resolved
       => /\ raised' = NoneStr
          /\ None \notin graph'.nodes
          /\ raised' # NoneStr => graph' = graph
      ]_vars

(* -------------------------------- C8 ---------------------------------- *)

Endpoints == {VX, VY, VT, VAnon, LPerson}

\* The one edge a call adds for a free ordered pair.
Drawn(g, r, u, v, label) ==
    /\ r.raised = NoneStr
    /\ r.graph.nodes = g.nodes \cup {u, v}
    /\ r.graph.edges = g.edges \cup {[u |-> u, v |-> v, key |-> 0,
                                       attributes |-> [label |-> label]]}

Occupied(g, u, v) == \E e \in g.edges : SamePair(e, u, v)

\* C8: add_isa adds the edge instance -> type, labelled "isa!" when exact and
\* "isa" otherwise, exactly when both resolved endpoints are present, the type
\* of the pipeline constraint is not a label, and the ordered pair holds no
\* edge yet; in every other case the graph is as it was.
C8_IsaEdge ==
    \A isa \in ResolvedOf(Binary("isa", Endpoints, Endpoints)) :
        LET r == add_isa(graph, isa)
            emits == /\ isa.instance # None
                     /\ isa.type # None
                     /\ isa.pipeline_constraint.second.kind # "label"
                     /\ ~Occupied(graph, isa.instance, isa.type)
        IN  IF emits
            THEN Drawn(graph, r, isa.instance, isa.type,
                       IF isa.exactness = "Exact" THEN "isa!" ELSE "isa")
            ELSE r = Ok(graph)

\* The first call was add_isa, inexact, instance bound to Person#1 and the type
\* variable bound to Person: the graph holds Person#1 -> Person labelled "isa".
C8_Witness ==
    /\ ncalls = 1
    /\ last # None
    /\ last.kind = "Isa"
    /\ last.exactness = "Subtypes"
    /\ graph.nodes = {P1, ConceptVertex(PersonType)}
    /\ graph.edges = {[u |-> P1, v |-> ConceptVertex(PersonType), key |-> 0,
                       attributes |-> [label |-> "isa"]]}

(* -------------------------------- C9 ---------------------------------- *)

Sources == {VX, VY, VAnon}

Targets == {VY, NRole, VAnon}

FiveKinds ==
    Binary("has", Sources, Targets) \cup Binary("sub", Sources, Targets)
    \cup Binary("owns", Sources, Targets) \cup Binary("relates", Sources, Targets)
    \cup Binary("plays", Sources, Targets)

\* The documented direction and kind name of each of the five kinds.
Source(dc) ==
    CASE dc.kind = "Has" -> dc.owner
      [] dc.kind = "Sub" -> dc.subtype
      [] dc.kind = "Owns" -> dc.owner
      [] dc.kind = "Relates" -> dc.relation
      [] dc.kind = "Plays" -> dc.player

Target(dc) ==
    CASE dc.kind = "Has" -> dc.attribute
      [] dc.kind = "Sub" -> dc.supertype
      [] dc.kind = "Owns" -> dc.attribute
      [] dc.kind = "Relates" -> dc.role
      [] dc.kind = "Plays" -> dc.role

KindName(dc) ==
    CASE dc.kind = "Has" -> "has"
      [] dc.kind = "Sub" -> "sub"
      [] dc.kind = "Owns" -> "owns"
      [] dc.kind = "Relates" -> "relates"
      [] dc.kind = "Plays" -> "plays"

Pairs(g) == {<<e.u, e.v>> : e \in g.edges}

\* C9: for Has, Sub, Owns, Relates and Plays, with both resolved endpoints
\* present and the ordered pair free, the call adds one edge in the documented
\* direction, labelled with the kind name, suffixed "!" iff the flag is Exact;
\* with an endpoint absent the graph is as it was; and the exactness flag
\* changes neither the vertices nor the ordered pairs of the result.
C9_FiveKindsEdge ==
    \A dc \in ResolvedOf(FiveKinds) :
        LET r == matching_add(graph, dc)
            other == matching_add(graph, [dc EXCEPT !.exactness =
                                    IF @ = "Exact" THEN "Subtypes" ELSE "Exact"])
        IN  /\ Source(dc) = None \/ Target(dc) = None => r = Ok(graph)
            /\ Source(dc) # None /\ Target(dc) # None /\ ~Occupied(graph, Source(dc), Target(dc))
                  => Drawn(graph, r, Source(dc), Target(dc),
                           IF dc.exactness = "Exact" THEN KindName(dc) \o "!" ELSE KindName(dc))
            /\ other.graph.nodes = r.graph.nodes
            /\ Pairs(other.graph) = Pairs(r.graph)

\* The first call was add_has with the Exact flag, owner Person#1 and
\* attribute Name(Alice): the graph holds Person#1 -> Name(Alice) labelled "has!".
C9_Witness ==
    /\ ncalls = 1
    /\ last # None
    /\ last.kind = "Has"
    /\ last.exactness = "Exact"
    /\ graph.edges = {[u |-> P1, v |-> ConceptVertex(Alice), key |-> 0,
                       attributes |-> [label |-> "has!"]]}

(* -------------------------------- C10 --------------------------------- *)

\* C10: add_links, with relation and player present and the pair (relation,
\* player) free, adds the edge relation -> player labelled with the role
\* display name: the role concept's label for a ConceptVertex role, the role
\* name for a NamedRoleVertex role, and no label value (None) when the role
\* resolved to neither.
C10_LinksEdge ==
    [][/\ last' \in ResolvedOf(LinksConstraints)
       /\ last'.relation # None
       /\ last'.player # None
       /\ ~Occupied(graph, last'.relation, last'.player)
       => LET display == IF last'.role = None THEN NoneStr
                         ELSE IF last'.role.vk = "NamedRoleVertex" THEN last'.role.name
                         ELSE IF last'.role.concept = None THEN NoneStr
                         ELSE last'.role.concept.label
          IN  Drawn(graph, [graph |-> graph', raised |-> raised'],
                    last'.relation, last'.player, display)
      ]_vars

(* -------------------------------- C11 --------------------------------- *)

\* The edge call-vertex -> assigned value at position i of a FunctionCall.
AssignEdgeOf(fc, i) ==
    LET name == get_variable_name(fc.pipeline_constraint.assigned[i].variable)
    IN  [u |-> fc.call_vertex, v |-> fc.assigned[i], key |-> 0,
         attributes |-> [label |-> "assign[" \o name \o "]", var |-> name]]

\* The edge argument -> call-vertex at position j of a FunctionCall.
ArgEdgeOf(fc, j) ==
    LET name == get_variable_name(fc.pipeline_constraint.arguments[j].variable)
    IN  [u |-> fc.arguments[j], v |-> fc.call_vertex, key |-> 0,
         attributes |-> [label |-> "arg[" \o name \o "]", var |-> name]]

FunctionCallEdges(fc) ==
    {AssignEdgeOf(fc, i) : i \in 1..Len(fc.assigned)}
    \cup {ArgEdgeOf(fc, j) : j \in 1..Len(fc.arguments)}

\* Both lists non-empty, every element present, and none of the call's ordered
\* pairs holds an edge in g.
FullAndFree(g, fc) ==
    /\ Len(fc.assigned) > 0
    /\ Len(fc.arguments) > 0
    /\ \A i \in 1..Len(fc.assigned) : fc.assigned[i] # None
    /\ \A j \in 1..Len(fc.arguments) : fc.arguments[j] # None
    /\ \A e \in FunctionCallEdges(fc) : ~Occupied(g, e.u, e.v)

\* C11: add_function_call on a FunctionCall with non-empty assigned and
\* argument lists, every element present and no edge yet on its pairs, adds
\* for each assigned value the edge call-vertex -> assigned labelled
\* "assign[<variable name>]" and for each argument the edge argument ->
\* call-vertex labelled "arg[<variable name>]", each with the variable name as
\* its "var" attribute, and adds no other edge; one argument and one assigned
\* value give exactly two edges.
C11_FunctionCallEdges ==
    \A fc \in ResolvedOf(FunctionCallConstraints) :
        FullAndFree(graph, fc) =>
            LET r == add_function_call(graph, fc)
            IN  /\ r.raised = NoneStr
                /\ r.graph.edges = graph.edges \cup FunctionCallEdges(fc)
                /\ Len(fc.assigned) = 1 /\ Len(fc.arguments) = 1
                   => Cardinality(r.graph.edges \ graph.edges) = 2

\* The first call was add_function_call for `let $x = age($y)` on the bound
\* row: the graph holds Alice -> call labelled arg[y] and call -> Person#1
\* labelled assign[x], and nothing else.
C11_Witness ==
    /\ ncalls = 1
    /\ last # None
    /\ last.kind = "FunctionCall"
    /\ last.assigned = <<P1>>
    /\ last.arguments = <<ConceptVertex(Alice)>>
    /\ graph.edges =
          {[u |-> last.call_vertex, v |-> P1, key |-> 0,
            attributes |-> [label |-> "assign[x]", var |-> "x"]],
           [u |-> ConceptVertex(Alice), v |-> last.call_vertex, key |-> 0,
            attributes |-> [label |-> "arg[y]", var |-> "y"]]}

(* -------------------------------- C12 --------------------------------- *)

\* The record class DataConstraint.of is to return for a pipeline kind.
RecordKind(k) ==
    CASE k = "isa" -> "Isa"
      [] k = "has" -> "Has"
      [] k = "links" -> "Links"
      [] k = "sub" -> "Sub"
      [] k = "owns" -> "Owns"
      [] k = "relates" -> "Relates"
      [] k = "plays" -> "Plays"
      [] k = "function_call" -> "FunctionCall"
      [] k = "expression" -> "Expression"
      [] k = "is" -> "Is"
      [] k = "iid" -> "Iid"
      [] k = "comparison" -> "Comparison"
      [] k = "kind" -> "Kind"
      [] k = "label" -> "Label"
      [] k = "value" -> "Value"

\* Constraints none of whose endpoints resolves: anonymous variables and
\* vertices of no known kind only.
AllAbsentConstraints ==
    UNION {Binary(k, {VAnon, Unknown}, {VAnon, Unknown}) :
              k \in {"isa", "has", "sub", "owns", "relates", "plays"}}
    \cup {[kind |-> "links", relation |-> VAnon, player |-> Unknown, role |-> VAnon,
           exactness |-> "Subtypes"],
          [kind |-> "expression", text |-> "1 + 1", assigned |-> VAnon,
           arguments |-> <<VAnon, Unknown>>],
          [kind |-> "function_call", name |-> "age", assigned |-> <<VAnon>>,
           arguments |-> <<Unknown, VAnon>>]}

\* C12: DataConstraint.of is total by kind. A constraint of one of the 15
\* drawable kinds gives a record of that kind built on that constraint, also
\* when some or all of its endpoints resolve to None; an or / not / try
\* constraint gives None; a constraint of any other kind raises a TypeError
\* whose message names the kind, and nothing is handed to the builder then.
C12_OfIsTotalByKind ==
    \A concept_row \in Rows :
        /\ raised = "TypeError" => last = None
        /\ \A constraint \in DrawableConstraints \cup AllAbsentConstraints :
              LET dc == of(constraint, concept_row)
              IN  /\ dc # None
                  /\ "vk" \notin DOMAIN dc
                  /\ dc.kind = RecordKind(constraint.kind)
                  /\ dc.pipeline_constraint = constraint
        /\ \A constraint \in StructureConstraints :
              of(constraint, concept_row) = None
        /\ \A constraint \in UnsupportedConstraints :
              LET e == of(constraint, concept_row)
              IN  /\ e # None
                  /\ "vk" \in DOMAIN e
                  /\ e.vk = "TypeError"
                  /\ e.message = "Unsupported constraint variant: " \o constraint.kind

\* The last call was handed a Has record whose attribute endpoint is None
\* (an anonymous variable): resolution returned the record all the same.
C12_Witness ==
    /\ last # None
    /\ last.kind = "Has"
    /\ last.owner = P1
    /\ last.attribute = None
    /\ last = of(last.pipeline_constraint, RowBound)

(* -------------------------------- C13 --------------------------------- *)

\* C13: add_kind, add_label, add_value, add_is, add_iid and add_comparison
\* never emit: whatever the graph and the resolved constraint, the call
\* returns normally with the vertex set and the edge set as they were.
C13_SixKindsNeverEmit ==
    LET same(r) == /\ r.raised = NoneStr
                   /\ r.graph.nodes = graph.nodes
                   /\ r.graph.edges = graph.edges
    IN  /\ \A dc \in ResolvedOf(KindConstraints) : same(add_kind(graph, dc))
        /\ \A dc \in ResolvedOf(LabelConstraints) : same(add_label(graph, dc))
        /\ \A dc \in ResolvedOf(ValueConstraints) : same(add_value(graph, dc))
        /\ \A dc \in ResolvedOf(IsConstraints) : same(add_is(graph, dc))
        /\ \A dc \in ResolvedOf(IidConstraints) : same(add_iid(graph, dc))
        /\ \A dc \in ResolvedOf(ComparisonConstraints) : same(add_comparison(graph, dc))

\* add_has drew Person#1 -> Alice, then add_iid was called on a record whose
\* variable is bound: the graph still holds that one edge and its two
\* vertices.
C13_Witness ==
    /\ ncalls = 2
    /\ last # None
    /\ last.kind = "Iid"
    /\ last.variable = P1
    /\ raised = NoneStr
    /\ graph.nodes = {P1, ConceptVertex(Alice)}
    /\ Cardinality(graph.edges) = 1
    /\ \A e \in graph.edges : e.attributes.label \in {"has", "has!"}

(* -------------------------------- C14 --------------------------------- *)

\* C14: in every state reached by add_* calls from the empty graph, the
\* vertex set is exactly the set of endpoints of the graph's edges: both
\* endpoints of every edge are vertices and no vertex is isolated.
C14_VerticesAreEdgeEndpoints ==
    graph.nodes = {e.u : e \in graph.edges} \cup {e.v : e \in graph.edges}

(* -------------------------------- C15 --------------------------------- *)

\* What of a graph does not depend on labels: its vertices and its ordered
\* (source, target) pairs.
Structure_of(g) == [nodes |-> g.nodes, pairs |-> Pairs(g)]

\* Records that contest a pair (has / owns on Person#1 -> Alice), that raise
\* part-way (a None in a list) and that share vertices.
OrderConstraints ==
    {[kind |-> "has", first |-> VX, second |-> VY, exactness |-> "Subtypes"],
     [kind |-> "owns", first |-> VX, second |-> VY, exactness |-> "Exact"],
     [kind |-> "function_call", name |-> "age", assigned |-> <<VX, VAnon>>,
      arguments |-> <<VY>>]}

\* C15: the structure of the graph does not depend on the order of the add_*
\* calls. From every reachable graph two calls made in either order leave the
\* same vertex set and the same set of ordered pairs, and every call adds to
\* the vertices and pairs what it adds to the empty graph, whatever the graph
\* holds: the structure after any sequence of calls is the union of the
\* calls' own vertices and pairs, the same for every permutation. Labels and
\* attributes are left free.
C15_OrderIndependence ==
    /\ \A a, b \in ResolvedOf(OrderConstraints) :
          Structure_of(matching_add(matching_add(graph, a).graph, b).graph)
          = Structure_of(matching_add(matching_add(graph, b).graph, a).graph)
    /\ \A dc \in Resolved :
          LET own == Structure_of(matching_add(EmptyGraph, dc).graph)
              after == Structure_of(matching_add(graph, dc).graph)
          IN  /\ after.nodes = graph.nodes \cup own.nodes
              /\ after.pairs = Pairs(graph) \cup own.pairs

\* add_has drew Person#1 -> Alice and add_owns then met the occupied pair:
\* the structure is the one the other order gives, and the label kept, "has",
\* is the one of the call that came first.
C15_Witness ==
    /\ ncalls = 2
    /\ last # None
    /\ last.kind = "Owns"
    /\ last.owner = P1
    /\ last.attribute = ConceptVertex(Alice)
    /\ graph.nodes = {P1, ConceptVertex(Alice)}
    /\ Pairs(graph) = {<<P1, ConceptVertex(Alice)>>}
    /\ LabelsOn(graph, P1, ConceptVertex(Alice)) = {"has"}

====
